---------------------------- MODULE Spec2Model ----------------------------
(***************************************************************************)
(* Boat simulator (Project 3 Boat/simulator/boat.py) and cart-pole         *)
(* simulator (Project 5 HardPole/ForceControl/cartpole.py).                *)
(*                                                                         *)
(* Numbers.  The program computes with float64.  The model computes with   *)
(* exact rationals <<n, d>> (d > 0, lowest terms), so that every equality   *)
(* the program's arithmetic is expected to satisfy is checked exactly.     *)
(* np.pi is a numeric constant of the program; the model's PI is the        *)
(* rational 22/7.  np.sin and np.cos are modelled by the piecewise-linear  *)
(* interpolant through their values at the multiples of PI/2; it is exact  *)
(* at those points (Sin(0) = 0, Cos(0) = 1), 2*PI-periodic, odd / even.    *)
(***************************************************************************)
EXTENDS Integers, Sequences, FiniteSets, TLC

VARIABLES
    sys,      \* which program runs: "boat", "cart", "batch" or "wrap"
    steps,    \* number of completed integration steps
    last,     \* the last call: its name, argument length, outcome, forces
    bstate,   \* BoatState of the boat constructed with wind_field = None
    wstate,   \* BoatState of the boat constructed with the wind field `wind`
    bparams,  \* BoatParameters shared by the two boats
    bkind,    \* "diff" (DifferentialThrustBoat) or "steer" (SteerableThrustBoat)
    wind,     \* the IWindField of the second boat
    cstate,   \* CartPole.state = <<x, x_dot, theta, theta_dot>>
    cparams,  \* CartPole.params
    bin,      \* arguments of the last dynamics_batch / wrap call
    bout      \* its result

vars == <<sys, steps, last, bstate, wstate, bparams, bkind, wind,
          cstate, cparams, bin, bout>>

---------------------------------------------------------------------------
(* Rational arithmetic.                                                    *)

\* The arithmetic is written as functions: an argument is evaluated once,
\* before the function is applied.
Rat == Int \X Int

Abs(n) == IF n < 0 THEN -n ELSE n

GCD[a \in Nat, b \in Nat] == IF b = 0 THEN a ELSE GCD[b, a % b]

RatQ[n \in Int, d \in Int] ==
    LET g == GCD[Abs(n), Abs(d)]
        s == IF d < 0 THEN -1 ELSE 1
    IN  <<(s * n) \div g, (s * d) \div g>>

\* Common factors are cancelled before multiplying, to keep the products small.
RatAdd[a \in Rat, b \in Rat] ==
    LET g == GCD[a[2], b[2]]
    IN  RatQ[a[1] * (b[2] \div g) + b[1] * (a[2] \div g), (a[2] \div g) * b[2]]
RatMul[a \in Rat, b \in Rat] ==
    LET g1 == GCD[Abs(a[1]), b[2]]
        g2 == GCD[Abs(b[1]), a[2]]
    IN  <<(a[1] \div g1) * (b[1] \div g2), (a[2] \div g2) * (b[2] \div g1)>>
RatInv[a \in Rat] == IF a[1] < 0 THEN <<-a[2], -a[1]>> ELSE <<a[2], a[1]>>
RatDiv[a \in Rat, b \in Rat] == RatMul[a, RatInv[b]]
RatNeg[a \in Rat] == <<-a[1], a[2]>>
RatLt[a \in Rat, b \in Rat] == a[1] * b[2] < b[1] * a[2]
RatLe[a \in Rat, b \in Rat] == a[1] * b[2] <= b[1] * a[2]

Q(n, d) == RatQ[n, d]
R(n) == <<n, 1>>

Zero == R(0)
One == R(1)

Add(a, b) == RatAdd[a, b]
Neg(a) == RatNeg[a]
Sub(a, b) == RatAdd[a, RatNeg[b]]
Mul(a, b) == RatMul[a, b]
Div(a, b) == RatDiv[a, b]
Lt(a, b) == RatLt[a, b]
Le(a, b) == RatLe[a, b]
Floor(a) == a[1] \div a[2]

\* Python / numpy float `a % m` for m > 0: a - m * floor(a / m), in [0, m).
RatMod[a \in Rat, m \in Rat] == Sub(a, Mul(m, R(RatDiv[a, m][1] \div RatDiv[a, m][2])))
Mod(a, m) == RatMod[a, m]

PI == Q(22, 7)
TwoPI == Mul(R(2), PI)
HalfPI == Div(PI, R(2))

\* (angle + np.pi) % (2 * np.pi) - np.pi
\* (a wrap that forgets the modulo)
wrap_angle_nomod(angle) == Sub(Add(angle, PI), PI)
wrap_angle(angle) == Sub(Mod(Add(angle, PI), TwoPI), PI)

\* np.sin, np.cos: linear between the multiples of PI/2.
SinF[a \in Rat] ==
    LET w == Sub(Mod(Add(a, PI), TwoPI), PI)
        t == Div(w, HalfPI)
    IN  IF Lt(One, t) THEN Sub(R(2), t)
        ELSE IF Lt(t, R(-1)) THEN Sub(R(-2), t)
        ELSE t

Sin(a) == SinF[a]
Cos(a) == SinF[Add(a, HalfPI)]

InRange(a) == Le(Neg(PI), a) /\ Le(a, PI)

---------------------------------------------------------------------------
(* BoatState.                                                              *)

BoatState(x, y, psi, Vx, Vy, omega, a1, a2) ==
    [x |-> x, y |-> y, psi |-> psi, Vx |-> Vx, Vy |-> Vy, omega |-> omega,
     adapt_param1 |-> a1, adapt_param2 |-> a2]

\* F applied to the value of v: v is evaluated once, whatever F does with it.
With(v, F(_)) == CHOOSE r \in { F(x) : x \in {v} } : TRUE

\* The outcome of a call: the state it leaves, and whether it raised.
Ok(s) == [raised |-> FALSE, state |-> s]
Raise(s) == [raised |-> TRUE, state |-> s]

\* from_array: `cur` is the state held before the call (kept when it raises).
from_array(cur, arr) ==
    IF Len(arr) # 8
    THEN Raise(cur)
    ELSE Ok(BoatState(arr[1], arr[2], arr[3], arr[4],
                      arr[5], arr[6], arr[7], arr[8]))

to_array(s) ==
    <<s.x, s.y, s.psi, s.Vx, s.Vy, s.omega, s.adapt_param1, s.adapt_param2>>

\* BoatState.update: the length check, then the eight assignments in order
\* (each reads only its own field; psi is wrapped right after its increment).
Euler(s, d, dt) ==
    [x |-> Add(s.x, Mul(d[1], dt)),
     y |-> Add(s.y, Mul(d[2], dt)),
     psi |-> wrap_angle(Add(s.psi, Mul(d[3], dt))),
     Vx |-> Add(s.Vx, Mul(d[4], dt)),
     Vy |-> Add(s.Vy, Mul(d[5], dt)),
     omega |-> Add(s.omega, Mul(d[6], dt)),
     adapt_param1 |-> Add(s.adapt_param1, Mul(d[7], dt)),
     adapt_param2 |-> Add(s.adapt_param2, Mul(d[8], dt))]

\* (an update that checks the length only when it runs out of elements)
update_latecheck(s, derivatives, dt) ==
    With(derivatives, LAMBDA d :
        IF Len(d) = 8 THEN Ok(Euler(s, d, dt))
        ELSE IF Len(d) = 0 THEN Raise(s)
        ELSE Raise([s EXCEPT !.x = Add(s.x, Mul(d[1], dt))]))
update(s, derivatives, dt) ==
    With(derivatives, LAMBDA d :
        IF Len(d) # 8
        THEN Raise(s)
        ELSE Ok(Euler(s, d, dt)))

---------------------------------------------------------------------------
(* BoatParameters, the wind field, Boat._kinematics and the two variants.  *)

BoatParameters(mass, inertia, damping, L, rho, Cx, Cy, area) ==
    [mass |-> mass, inertia |-> inertia, damping |-> damping, L |-> L,
     air_density |-> rho, sail_Cx |-> Cx, sail_Cy |-> Cy, sail_area |-> area]

\* wind_field is None, or a field: a base wind plus a shear along y.
None == [none |-> TRUE]
Field(wx, wy, k) == [none |-> FALSE, base |-> <<wx, wy>>, shear |-> k]
ZeroField == Field(Zero, Zero, Zero)

\* IWindField.get_wind([x, y]) -> [V_wx_global, V_wy_global]
get_wind(field, pos) ==
    <<Add(field.base[1], Mul(field.shear, pos[2])), field.base[2]>>

Half == Q(1, 2)

\* The sail forces <<F_sail_x, F_sail_y>> of _kinematics.
\* (sail forces that leave out the sail area)
sail_forces_noarea(s, p, field) ==
    IF field.none
    THEN <<Zero, Zero>>
    ELSE LET W == get_wind(field, <<s.x, s.y>>)
             V_wx_body == Add(Mul(Cos(s.psi), W[1]), Mul(Sin(s.psi), W[2]))
             V_wy_body == Add(Mul(Neg(Sin(s.psi)), W[1]), Mul(Cos(s.psi), W[2]))
             V_aw_x == Sub(V_wx_body, s.Vx)
             V_aw_y == Sub(V_wy_body, s.Vy)
             Wind_Force == Mul(Half, p.air_density)
         IN  <<Mul(Mul(Wind_Force, p.sail_Cx), V_aw_x),
               Mul(Mul(Wind_Force, p.sail_Cy), V_aw_y)>>
sail_forces(s, p, field) ==
    IF field.none
    THEN <<Zero, Zero>>
    ELSE LET W == get_wind(field, <<s.x, s.y>>)
             V_wx_body == Add(Mul(Cos(s.psi), W[1]), Mul(Sin(s.psi), W[2]))
             V_wy_body == Add(Mul(Neg(Sin(s.psi)), W[1]), Mul(Cos(s.psi), W[2]))
             V_aw_x == Sub(V_wx_body, s.Vx)
             V_aw_y == Sub(V_wy_body, s.Vy)
             Wind_Force == Mul(Mul(Half, p.air_density), p.sail_area)
         IN  <<Mul(Mul(Wind_Force, p.sail_Cx), V_aw_x),
               Mul(Mul(Wind_Force, p.sail_Cy), V_aw_y)>>

\* _kinematics(Fx, Fy, M) -> <<dx, dy, dpsi, dVx, dVy, domega>>
kinematics(s, p, field, Fx, Fy, M) ==
    LET dx == Sub(Mul(s.Vx, Cos(s.psi)), Mul(s.Vy, Sin(s.psi)))
        dy == Add(Mul(s.Vx, Sin(s.psi)), Mul(s.Vy, Cos(s.psi)))
        dpsi == s.omega
        F_sail == sail_forces(s, p, field)
        dVx == Sub(Div(Add(Fx, F_sail[1]), p.mass), Mul(p.damping[1], s.Vx))
        dVy == Sub(Div(Add(Fy, F_sail[2]), p.mass), Mul(p.damping[2], s.Vy))
        domega == Sub(Div(M, p.inertia), Mul(p.damping[3], s.omega))
    IN  <<dx, dy, dpsi, dVx, dVy, domega>>

\* The <<Fx, Fy, M>> each variant's dynamics passes to _kinematics.
\* (only the left thruster drives; a side force from the thrust difference)
DifferentialForcesOneThruster(p, control) ==
    <<control[1], Zero, Mul(p.L, Sub(control[2], control[1]))>>
DifferentialForcesSideSlip(p, control) ==
    <<Add(control[1], control[2]),
      Sub(control[2], control[1]),
      Mul(p.L, Sub(control[2], control[1]))>>
DifferentialForces(p, control) ==
    <<Add(control[1], control[2]),
      Zero,
      Mul(p.L, Sub(control[2], control[1]))>>

SteerableForces(p, control) ==
    LET thrust == control[1]
        theta == control[2]
    IN  <<Mul(thrust, Cos(theta)),
          Mul(thrust, Sin(theta)),
          Mul(Mul(thrust, p.L), Sin(theta))>>

Forces(kind, p, control) ==
    IF kind = "diff" THEN DifferentialForces(p, control)
    ELSE SteerableForces(p, control)

dynamics(kind, s, p, field, control) ==
    With(Forces(kind, p, control), LAMBDA F :
        kinematics(s, p, field, F[1], F[2], F[3]))

\* Boat.update_state
update_state(kind, s, p, field, control, adaptation_derivatives, dt) ==
    update(s, dynamics(kind, s, p, field, control) \o adaptation_derivatives, dt)

---------------------------------------------------------------------------
(* CartPoleParams and CartPole.                                            *)

CartPoleParams(m_cart, m_pole, l, g, damping, rotary_damping, max_force) ==
    [m_cart |-> m_cart, m_pole |-> m_pole, l |-> l, g |-> g,
     damping |-> damping, rotary_damping |-> rotary_damping,
     max_force |-> max_force]

\* The dataclass defaults.
DefaultParams ==
    CartPoleParams(One, Q(1, 10), Q(1, 2), Q(981, 100), R(10), Q(1, 10), R(300))

FourThirds == Div(R(4), R(3))

\* theta_acc, given <<sin_theta, cos_theta, total_mass, temp>>.
theta_acc_of(p, theta_dot, c) ==
    Div(Sub(Sub(Mul(p.g, c[1]), Mul(c[2], c[4])),
            Mul(p.rotary_damping, theta_dot)),
        Mul(p.l, Sub(FourThirds,
                     Div(Mul(p.m_pole, Mul(c[2], c[2])), c[3]))))

\* CartPole.dynamics(params, state, force) -> <<x_dot, x_acc, theta_dot, theta_acc>>
\* (a dynamics whose gravity term takes cos_theta for sin_theta)
CartPole_dynamics_gravity(p, state, force) ==
    With(<<Sin(state[3]), Cos(state[3]), Add(p.m_cart, p.m_pole)>>, LAMBDA c :
    With(Div(Sub(Add(force,
                     Mul(Mul(Mul(p.m_pole, p.l), Mul(state[4], state[4])), c[1])),
                 Mul(p.damping, state[2])),
             c[3]), LAMBDA temp :
    With(theta_acc_of(p, state[4], <<c[2], c[2], c[3], temp>>), LAMBDA theta_acc :
        <<state[2],
          Sub(temp, Div(Mul(Mul(Mul(p.m_pole, p.l), theta_acc), c[2]), c[3])),
          state[4],
          theta_acc>>)))
CartPole_dynamics(p, state, force) ==
    \* c = <<sin_theta, cos_theta, total_mass>>; pole_mass_length = m_pole * l
    With(<<Sin(state[3]), Cos(state[3]), Add(p.m_cart, p.m_pole)>>, LAMBDA c :
    With(Div(Sub(Add(force,
                     Mul(Mul(Mul(p.m_pole, p.l), Mul(state[4], state[4])), c[1])),
                 Mul(p.damping, state[2])),
             c[3]), LAMBDA temp :
    With(theta_acc_of(p, state[4], c \o <<temp>>), LAMBDA theta_acc :
        <<state[2],
          Sub(temp, Div(Mul(Mul(Mul(p.m_pole, p.l), theta_acc), c[2]), c[3])),
          state[4],
          theta_acc>>)))

\* np.clip(force, lo, hi)
\* (no saturation)
clip_none(force, lo, hi) == force
clip(force, lo, hi) ==
    IF Lt(force, lo) THEN lo ELSE IF Lt(hi, force) THEN hi ELSE force

\* (self.state[2] + np.pi) % (2 * np.pi) - np.pi, the wrap of theta in update
\* (theta left as integrated)
wrap_theta_none(theta) == theta
wrap_theta(theta) == Sub(Mod(Add(theta, PI), TwoPI), PI)

\* CartPole.update(force, dt): the state it leaves.
CartPole_update(p, state, force, dt) ==
    With(CartPole_dynamics(p, state, clip(force, Neg(p.max_force), p.max_force)),
         LAMBDA derivs :
            <<Add(state[1], Mul(derivs[1], dt)),
              Add(state[2], Mul(derivs[2], dt)),
              wrap_theta(Add(state[3], Mul(derivs[3], dt))),
              Add(state[4], Mul(derivs[4], dt))>>)

---------------------------------------------------------------------------
(* CartPole.dynamics_batch: numpy arithmetic on arrays.                    *)
(* A numpy operand is a scalar [dim |-> 0, v |-> <<q>>], a 1-D array       *)
(* [dim |-> 1, v |-> <<q1, ..., qn>>] or a 2-D array of rows (dim 2); an   *)
(* operation whose operands cannot be broadcast together raises, which is  *)
(* the value ShapeError.                                                   *)

Scalar(q) == [dim |-> 0, v |-> <<q>>]
Array(qs) == [dim |-> 1, v |-> qs]
Array2(rows) == [dim |-> 2, v |-> rows]
ShapeError == [dim |-> -1, v |-> <<>>]

\* The shape an elementwise operation gives its result: -1 when it raises,
\* 0 for a scalar, else 1 (with the length n).
BroadcastLen(a, b) ==
    IF a.dim = 0 THEN Len(b.v)
    ELSE IF b.dim = 0 THEN Len(a.v)
    ELSE IF Len(a.v) = Len(b.v) THEN Len(a.v)
    ELSE IF Len(a.v) = 1 THEN Len(b.v)
    ELSE IF Len(b.v) = 1 THEN Len(a.v)
    ELSE -1

At(a, i) == IF Len(a.v) = 1 THEN a.v[1] ELSE a.v[i]

\* x op y on numbers, for the operators "+", "-", "*", "/".
ApplyOp(op, x, y) ==
    CASE op = "+" -> Add(x, y)
      [] op = "-" -> Sub(x, y)
      [] op = "*" -> Mul(x, y)
      [] op = "/" -> Div(x, y)

\* a op b on numpy operands: elementwise, with broadcasting.
Elementwise(op, a0, b0) ==
    CHOOSE r \in
      { IF a.dim = -1 \/ b.dim = -1 THEN ShapeError
        ELSE IF a.dim = 0 /\ b.dim = 0 THEN Scalar(ApplyOp(op, a.v[1], b.v[1]))
        ELSE IF BroadcastLen(a, b) = -1 THEN ShapeError
        ELSE Array([i \in 1..BroadcastLen(a, b) |->
                        ApplyOp(op, At(a, i), At(b, i))])
        : a \in {a0}, b \in {b0} } : TRUE

\* np.sin(a), np.cos(a) on a 1-D array.
np_sin(a) == Array([i \in 1..Len(a.v) |-> Sin(a.v[i])])
np_cos(a) == Array([i \in 1..Len(a.v) |-> Cos(a.v[i])])

\* states[:, k]
Column(states, k) == Array([i \in 1..Len(states) |-> states[i][k]])

\* np.stack(cols, axis=-1): the columns must all have the same shape.
\* (first: a stack that stops at the shortest column, as zip does)
stack_shortest(cols) ==
    IF \E k \in 1..Len(cols) : cols[k].dim = -1 THEN ShapeError
    ELSE LET n == CHOOSE m \in { Len(cols[k].v) : k \in 1..Len(cols) } :
                      \A k \in 1..Len(cols) : m <= Len(cols[k].v)
         IN  Array2([i \in 1..n |-> [k \in 1..Len(cols) |-> cols[k].v[i]]])
stack(cols) ==
    IF \E k \in 1..Len(cols) : cols[k].dim = -1 THEN ShapeError
    ELSE IF \E k \in 1..Len(cols) :
                cols[k].dim # cols[1].dim \/ Len(cols[k].v) # Len(cols[1].v)
    THEN ShapeError
    ELSE Array2([i \in 1..Len(cols[1].v) |->
                    [k \in 1..Len(cols) |-> cols[k].v[i]]])

\* The batched theta_acc, given <<sin_theta, cos_theta, temp>>.
theta_acc_batch(p, theta_dot, c) ==
    Elementwise("/",
        Elementwise("-",
            Elementwise("-", Elementwise("*", Scalar(p.g), c[1]),
                             Elementwise("*", c[2], c[3])),
            Elementwise("*", Scalar(p.rotary_damping), theta_dot)),
        Elementwise("*", Scalar(p.l),
            Elementwise("-", Scalar(FourThirds),
                Elementwise("/",
                    Elementwise("*", Scalar(p.m_pole), Elementwise("*", c[2], c[2])),
                    Scalar(Add(p.m_cart, p.m_pole))))))

\* The batched temp, given sin_theta: `forces` is a numpy operand.
\* (first: a temp that takes the first force for every row)
temp_firstforce(p, x_dot, theta_dot, sin_theta, forces) ==
    Elementwise("/",
        Elementwise("-",
            Elementwise("+",
                IF Len(forces.v) = 0 THEN forces ELSE Scalar(forces.v[1]),
                Elementwise("*",
                    Elementwise("*", Scalar(Mul(p.m_pole, p.l)),
                                     Elementwise("*", theta_dot, theta_dot)),
                    sin_theta)),
            Elementwise("*", Scalar(p.damping), x_dot)),
        Scalar(Add(p.m_cart, p.m_pole)))
temp_batch(p, x_dot, theta_dot, sin_theta, forces) ==
    Elementwise("/",
        Elementwise("-",
            Elementwise("+", forces,
                Elementwise("*",
                    Elementwise("*", Scalar(Mul(p.m_pole, p.l)),
                                     Elementwise("*", theta_dot, theta_dot)),
                    sin_theta)),
            Elementwise("*", Scalar(p.damping), x_dot)),
        Scalar(Add(p.m_cart, p.m_pole)))

\* dynamics_batch(params, states, forces): the N rows, or ShapeError.
dynamics_batch(p, states, forces) ==
    With(<<np_sin(Column(states, 3)), np_cos(Column(states, 3))>>, LAMBDA c :
    With(temp_batch(p, Column(states, 2), Column(states, 4), c[1], forces),
         LAMBDA temp :
    With(theta_acc_batch(p, Column(states, 4), c \o <<temp>>), LAMBDA theta_acc :
        stack(<<Column(states, 2),
                Elementwise("-", temp,
                    Elementwise("/",
                        Elementwise("*",
                            Elementwise("*", Scalar(Mul(p.m_pole, p.l)), theta_acc),
                            c[2]),
                        Scalar(Add(p.m_cart, p.m_pole)))),
                Column(states, 4),
                theta_acc>>))))

---------------------------------------------------------------------------
(* The boat program: two boats built from the same initial state and       *)
(* parameters, one with wind_field = None and one with the field `wind`,   *)
(* driven by the same calls.                                               *)

MaxSteps == 2
MaxCalls == 1
MaxLen == 9

Kinds == {"diff", "steer"}

WindFields == {ZeroField, Field(One, Zero, Half)}

NoDamping == <<Zero, Zero, Zero>>

BoatParamSet ==
    { BoatParameters(R(10), R(5), NoDamping, One, One, One, One, R(2)),
      BoatParameters(R(2), One, <<Half, One, Half>>, Half, One, One, Half, R(2)),
      BoatParameters(R(2), One, <<Half, One, Half>>, Half, One, One, Half, Zero) }

\* Initial states, as the 8-element arrays handed to from_array.
InitArrays ==
    { <<Zero, Zero, Zero, Zero, Zero, Zero, Zero, Zero>>,
      <<Zero, Zero, R(4), One, Zero, Zero, Zero, Zero>>,
      <<One, R(-1), Zero, One, One, PI, Zero, One>> }

DerivArrays ==
    { <<One, Zero, PI, Zero, Zero, One, Zero, Zero>>,
      <<Zero, Half, R(-7), One, Zero, Zero, One, Half>> }

AdaptArrays == { <<Zero, Zero>>, <<One, R(-1)>> }

Resize(arr, n) == [i \in 1..n |-> IF i <= Len(arr) THEN arr[i] ELSE One]

\* The arrays of `base` cut or padded to the lengths in `lens`.
Arrays(base, lens) == { Resize(a, n) : a \in base, n \in lens }

\* Lengths around the required one, up to MaxLen.
Lens(required) == {0, required - 1, required, MaxLen - 8 + required}

\* The <<control, adaptation_derivatives, dt>> of the update_state calls made.
Calls ==
    { <<(<<One, One>>), (<<Zero, Zero>>), One>>,
      <<(<<One, One>>), (<<One, R(-1)>>), Half>>,
      <<(<<Half, Half>>), (<<Zero, Zero>>), One>>,
      <<(<<Half, Half>>), (<<Zero, Zero>>), Half>>,
      <<(<<R(-1), Half>>), (<<Zero, Zero>>), One>>,
      <<(<<R(-1), Half>>), (<<One, R(-1)>>), Half>> }

DTs == { One, Half }

NoForces == <<Zero, Zero, Zero>>

\* A record of the last call: its name, the length of its array argument,
\* whether it raised, the <<Fx, Fy, M>> it passed to _kinematics, and its
\* <<control, adaptation_derivatives, dt>>.
Call(op, len, raised, F, args) ==
    [op |-> op, len |-> len, raised |-> raised, F |-> F, args |-> args]

CartIdle ==
    /\ cstate = <<Zero, Zero, Zero, Zero>>
    /\ cparams = [none |-> TRUE]

PureIdle ==
    /\ bin = <<>>
    /\ bout = <<>>

BoatIdle ==
    /\ bstate = BoatState(Zero, Zero, Zero, Zero, Zero, Zero, Zero, Zero)
    /\ wstate = bstate
    /\ bparams = [none |-> TRUE]
    /\ bkind = "diff"
    /\ wind = None

\* Boat.__init__ on a state built by BoatState.from_array.
InitBoat ==
    /\ sys = "boat"
    /\ steps = 0
    /\ bparams \in BoatParamSet
    /\ bkind \in Kinds
    /\ wind \in WindFields
    /\ \E arr \in InitArrays :
          /\ bstate = from_array(<<>>, arr).state
          /\ wstate = bstate
    /\ last = Call("init", 8, FALSE, NoForces, <<>>)
    /\ CartIdle
    /\ PureIdle

\* BoatState.from_array(arr) before the first step: the boats are rebuilt on
\* the new state, or the call raises.
FromArray(arr) ==
    /\ sys = "boat"
    /\ steps = 0
    /\ \E r \in {from_array(bstate, arr)}, w \in {from_array(wstate, arr)} :
           /\ bstate' = r.state
           /\ wstate' = w.state
           /\ last' = Call("from_array", Len(arr), r.raised, NoForces, <<>>)
    /\ UNCHANGED <<sys, steps, bparams, bkind, wind, cstate, cparams, bin, bout>>

\* BoatState.update(derivatives, dt) called directly on both states.
StateUpdate(derivatives, dt, bound) ==
    /\ sys = "boat"
    /\ steps < bound
    /\ \E r \in {update(bstate, derivatives, dt)},
          w \in {update(wstate, derivatives, dt)} :
           /\ bstate' = r.state
           /\ wstate' = w.state
           /\ steps' = IF r.raised THEN steps ELSE steps + 1
           /\ last' = Call("update", Len(derivatives), r.raised, NoForces,
                           <<<<>>, <<>>, dt>>)
    /\ UNCHANGED <<sys, bparams, bkind, wind, cstate, cparams, bin, bout>>

\* Boat.update_state(control, adaptation_derivatives, dt) on both boats.
UpdateState(control, adaptation_derivatives, dt, bound) ==
    /\ sys = "boat"
    /\ steps < bound
    /\ \E r \in {update_state(bkind, bstate, bparams, None,
                               control, adaptation_derivatives, dt)},
          w \in {update_state(bkind, wstate, bparams, wind,
                               control, adaptation_derivatives, dt)} :
           /\ bstate' = r.state
           /\ wstate' = w.state
           /\ steps' = IF r.raised THEN steps ELSE steps + 1
           /\ last' = Call("update_state", 6 + Len(adaptation_derivatives),
                           r.raised, Forces(bkind, bparams, control),
                           <<control, adaptation_derivatives, dt>>)
    /\ UNCHANGED <<sys, bparams, bkind, wind, cstate, cparams, bin, bout>>

\* Simulation runs: every call is well-formed.
NextBoat ==
    \/ \E d \in DerivArrays : StateUpdate(d, One, MaxSteps)
    \/ \E call \in Calls : UpdateState(call[1], call[2], call[3], MaxSteps)

SpecBoat == InitBoat /\ [][NextBoat]_vars

\* Calls with arrays of any length, well-formed or not.
NextCalls ==
    \/ \E arr \in Arrays(InitArrays, Lens(8)) : FromArray(arr)
    \/ \E d \in Arrays(DerivArrays, Lens(8)) : StateUpdate(d, Half, MaxCalls)
    \/ \E a \in Arrays(AdaptArrays, Lens(2)) :
          UpdateState(<<One, Zero>>, a, Half, MaxCalls)

SpecCalls == InitBoat /\ [][NextCalls]_vars

---------------------------------------------------------------------------
(* The cart-pole program.                                                  *)

CartParamSet ==
    { DefaultParams,
      CartPoleParams(One, One, One, R(10), Zero, Zero, R(2)),
      CartPoleParams(R(2), One, Half, R(10), One, Half, One) }

CartInitStates ==
    { <<Zero, Zero, Zero, Zero>>,
      <<Zero, Zero, R(4), Zero>>,
      <<One, R(-1), Half, One>>,
      <<Zero, One, R(3), One>> }

\* Forces inside, at and beyond the saturation limits of p.
ForcesFor(p) ==
    { Zero, Half, p.max_force, Mul(R(10), p.max_force),
      Neg(p.max_force), Neg(Add(p.max_force, One)) }

\* The model's integers are 32 bits wide: a step is taken only from states and
\* parameters whose numerators and denominators are small enough for the
\* step's products.
Weight(q) == Abs(q[1]) * q[2]
MaxWeight == 100
Fits(p, state) ==
    \A a \in {p.m_cart, p.m_pole, p.l, p.g, p.damping, p.rotary_damping} :
        \A i \in 1..4 : Weight(a) * Weight(state[i]) <= MaxWeight

CartCall(force, dt) == [op |-> "cart_update", force |-> force, dt |-> dt]

\* CartPole.__init__(init_state, params)
InitCart ==
    /\ sys = "cart"
    /\ steps = 0
    /\ cparams \in CartParamSet
    /\ cstate \in CartInitStates
    /\ last = [op |-> "init"]
    /\ BoatIdle
    /\ PureIdle

\* CartPole.update(force, dt)
CartUpdate(force, dt) ==
    /\ sys = "cart"
    /\ steps < MaxSteps
    /\ Fits(cparams, cstate)
    /\ cstate' = CartPole_update(cparams, cstate, force, dt)
    /\ steps' = steps + 1
    /\ last' = CartCall(force, dt)
    /\ UNCHANGED <<sys, cparams, bstate, wstate, bparams, bkind, wind, bin, bout>>

NextCart ==
    /\ sys = "cart"
    /\ \E f \in ForcesFor(cparams), dt \in DTs : CartUpdate(f, dt)

SpecCart == InitCart /\ [][NextCart]_vars

\* Either simulation.
SpecAngles == (InitBoat \/ InitCart) /\ [][NextBoat \/ NextCart]_vars

---------------------------------------------------------------------------
(* Calls of the pure functions: dynamics_batch and the angle wrap.         *)

MaxN == 3
MaxK == 16

BatchParamSet ==
    { CartPoleParams(One, One, One, R(10), Zero, Zero, R(2)),
      CartPoleParams(R(2), One, Half, R(10), One, Half, One) }

Rows == { <<Zero, Zero, Zero, Zero>>, <<One, R(-1), Half, One>>,
          <<Zero, One, R(3), R(-1)>> }

ForceValues == { Zero, R(2) }

\* Sequences over S of the lengths 0..n.
RECURSIVE SeqsUpTo(_, _)
SeqsUpTo(S, n) ==
    IF n = 0 THEN { <<>> }
    ELSE LET shorter == SeqsUpTo(S, n - 1)
         IN  shorter \cup { Append(q, x) : q \in shorter, x \in S }

ForceOperands ==
    { Scalar(f) : f \in ForceValues } \cup
    { Array(fs) : fs \in SeqsUpTo(ForceValues, MaxN) }

NoResult == [dim |-> -2, v |-> <<>>]

InitBatch ==
    /\ sys = "batch"
    /\ steps = 0
    /\ last = [op |-> "init"]
    /\ bin \in [params : BatchParamSet, states : SeqsUpTo(Rows, MaxN),
                forces : ForceOperands]
    /\ bout = NoResult
    /\ BoatIdle
    /\ CartIdle

\* CartPole.dynamics_batch(params, states, forces)
BatchCall ==
    /\ sys = "batch"
    /\ bout = NoResult
    /\ bout' = dynamics_batch(bin.params, bin.states, bin.forces)
    /\ last' = [op |-> "dynamics_batch"]
    /\ UNCHANGED <<sys, steps, bin, bstate, wstate, bparams, bkind, wind,
                   cstate, cparams>>

SpecBatch == InitBatch /\ [][BatchCall]_vars

\* Angles: quarter multiples of PI and half-integers.
Angles ==
    { Mul(Q(k, 4), PI) : k \in (-MaxK)..MaxK } \cup { Q(k, 2) : k \in (-MaxK)..MaxK }

InitWrap ==
    /\ sys = "wrap"
    /\ steps = 0
    /\ last = [op |-> "init"]
    /\ bin \in Angles
    /\ bout = NoResult
    /\ BoatIdle
    /\ CartIdle

\* The wrap of BoatState.update (psi) and of CartPole.update (theta).
WrapCall ==
    /\ sys = "wrap"
    /\ bout = NoResult
    /\ bout' = Array(<<wrap_angle(bin), wrap_theta(bin)>>)
    /\ last' = [op |-> "wrap"]
    /\ UNCHANGED <<sys, steps, bin, bstate, wstate, bparams, bkind, wind,
                   cstate, cparams>>

SpecWrap == InitWrap /\ [][WrapCall]_vars

---------------------------------------------------------------------------
(* Properties of BoatState: validation and the angle wrap.                 *)

\* C1: from_array and update raise exactly when the array they are given is
\* not 8 long (for update_state: when the 6 kinematic derivatives plus the
\* adaptation derivatives are not 8 long), and a call that raises leaves all
\* 8 components of the state exactly as they were before the call.
ValidationWithoutPartialMutation ==
    [][ last'.op \in {"from_array", "update", "update_state"} =>
          /\ last'.raised <=> last'.len # 8
          /\ last'.raised =>
                /\ to_array(bstate') = to_array(bstate)
                /\ to_array(wstate') = to_array(wstate) ]_vars

\* A moving boat whose update_state was refused for a 7-long vector.
RefusedUpdateState ==
    /\ last.op = "update_state"
    /\ last.raised
    /\ last.len = 7
    /\ bstate.psi = R(4)
    /\ bstate.Vx = One

OddMultipleOfPI(a) ==
    \E k \in (-(MaxK + 1))..(MaxK + 1) : k % 2 = 1 /\ a = Mul(R(k), PI)

\* C2 (as amended): both wraps return a value of the closed interval
\* [-pi, pi], and an odd multiple of pi wraps to -pi, the lower end.
WrapInClosedRange ==
    bout.dim = 1 =>
        \A i \in 1..2 :
            /\ InRange(bout.v[i])
            /\ OddMultipleOfPI(bin) => bout.v[i] = Neg(PI)

\* C2 (as stated): both wraps return a value of the half-open interval
\* (-pi, pi], strictly greater than -pi, also for odd multiples of pi.
WrapInHalfOpenRange ==
    bout.dim = 1 =>
        \A i \in 1..2 : Lt(Neg(PI), bout.v[i]) /\ Le(bout.v[i], PI)

\* 3*pi has been wrapped, by both formulas, to -pi.
WrappedThreePI ==
    /\ bin = Mul(R(3), PI)
    /\ bout = Array(<<Neg(PI), Neg(PI)>>)

\* C3 (as amended): after every successful update the reported angle (psi of
\* to_array, theta at index 2 of CartPole.state) lies in [-pi, pi]; directly
\* after construction it is the initial value as given.
AngleWrappedAfterUpdate ==
    /\ (sys = "boat" /\ steps >= 1) =>
          InRange(to_array(bstate)[3]) /\ InRange(to_array(wstate)[3])
    /\ (sys = "cart" /\ steps >= 1) => InRange(cstate[3])
    /\ (sys = "boat" /\ steps = 0) =>
          to_array(bstate)[3] \in { arr[3] : arr \in InitArrays }
    /\ (sys = "cart" /\ steps = 0) =>
          cstate[3] \in { s[3] : s \in CartInitStates }

\* C3 (as stated): in every reachable state, directly after construction
\* included, the reported angle lies in (-pi, pi].
AngleAlwaysWrapped ==
    /\ sys = "boat" =>
          Lt(Neg(PI), to_array(bstate)[3]) /\ Le(to_array(bstate)[3], PI)
    /\ sys = "cart" => Lt(Neg(PI), cstate[3]) /\ Le(cstate[3], PI)

\* A boat built with psi = 4 has made one step, which wrapped psi.
WrappedByFirstStep ==
    /\ sys = "boat"
    /\ steps = 1
    /\ last.op = "update_state"
    /\ bstate.psi = Sub(R(4), TwoPI)

---------------------------------------------------------------------------
(* Properties of the boats.                                                *)

\* Both sail force factors, 0.5 * air_density * sail_area * sail_C, are zero.
SailFactorsZero(p) ==
    /\ Mul(Mul(Mul(Half, p.air_density), p.sail_area), p.sail_Cx) = Zero
    /\ Mul(Mul(Mul(Half, p.air_density), p.sail_area), p.sail_Cy) = Zero

\* C4 (as amended): a boat with no wind field and a boat in a wind field that
\* is [0, 0] everywhere, built alike and driven alike, have identical states
\* after every step when both sail force factors are zero.
NoWindEquivalenceWithoutSail ==
    (wind = ZeroField /\ SailFactorsZero(bparams)) => bstate = wstate

\* C4 (as stated): the two boats have identical states after every step, for
\* any parameters and initial body velocities.
NoWindEquivalence ==
    wind = ZeroField => bstate = wstate

\* Two steps of a moving boat without sail area in the zero wind field.
MovedInZeroWindWithoutSail ==
    /\ wind = ZeroField
    /\ SailFactorsZero(bparams)
    /\ steps = 2
    /\ last.op = "update_state"
    /\ bstate.Vx # Zero
    /\ bstate.Vy # Zero

ZeroState == BoatState(Zero, Zero, Zero, Zero, Zero, Zero, Zero, Zero)

\* One update_state step of a DifferentialThrustBoat with equal thrusts: from
\* the all-zero state, with zero damping and zero adaptation derivatives, only
\* Vx changes, to 2*a*dt/mass, which is `example` for mass = 10, a = 1, dt = 1;
\* from any state with y, psi, Vy and omega zero, these four stay zero.
EqualThrustStep(example) ==
    (/\ bkind = "diff"
     /\ last'.op = "update_state"
     /\ ~last'.raised
     /\ last'.args[1][1] = last'.args[1][2]) =>
        /\ (/\ bstate = ZeroState
            /\ bparams.damping = NoDamping
            /\ last'.args[2] = <<Zero, Zero>>) =>
               /\ bstate' = [ZeroState EXCEPT !.Vx =
                     Div(Mul(Mul(R(2), last'.args[1][1]), last'.args[3]),
                         bparams.mass)]
               /\ (/\ bparams.mass = R(10)
                   /\ last'.args[1][1] = One
                   /\ last'.args[3] = One) => bstate'.Vx = example
        /\ (/\ bstate.y = Zero /\ bstate.psi = Zero
            /\ bstate.Vy = Zero /\ bstate.omega = Zero) =>
               /\ bstate'.y = Zero /\ bstate'.psi = Zero
               /\ bstate'.Vy = Zero /\ bstate'.omega = Zero

\* C9 (as amended): with no wind field, zero damping and the all-zero state,
\* one step with equal thrusts (a, a) and zero adaptation derivatives changes
\* only Vx, to 2*a*dt/mass (0.2 for mass = 10, control = (1, 1), dt = 1);
\* over further equal-thrust steps y, psi, Vy and omega stay 0.
EqualThrustAcceleratesStraight == [][EqualThrustStep(Q(1, 5))]_vars

\* C9 (as stated): the same, with Vx = 0.1 for mass = 10, control = (1, 1),
\* dt = 1.
EqualThrustGivesOneTenth == [][EqualThrustStep(Q(1, 10))]_vars

\* The boat of mass 10 after its first step, made with thrusts (1, 1), dt = 1.
AcceleratedToOneFifth ==
    /\ bkind = "diff"
    /\ steps = 1
    /\ last.op = "update_state"
    /\ last.args = <<(<<One, One>>), (<<Zero, Zero>>), One>>
    /\ bparams.mass = R(10)
    /\ bstate = [ZeroState EXCEPT !.Vx = Q(1, 5)]

\* C10: a DifferentialThrustBoat passes Fx = a + b, Fy = 0 and M = L*(b - a)
\* to _kinematics for every control (a, b), and without a wind field a
\* lateral velocity Vy of 0 is still 0 after every update_state step.
NoSideForce ==
    [][ (bkind = "diff" /\ last'.op = "update_state" /\ ~last'.raised) =>
          /\ last'.F = <<Add(last'.args[1][1], last'.args[1][2]),
                         Zero,
                         Mul(bparams.L,
                             Sub(last'.args[1][2], last'.args[1][1]))>>
          /\ bstate.Vy = Zero => bstate'.Vy = Zero ]_vars

\* A turning boat, driven by unequal thrusts, that has no lateral velocity.
TurnedWithoutSideSlip ==
    /\ bkind = "diff"
    /\ steps = 2
    /\ last.op = "update_state"
    /\ last.args[1] = <<R(-1), Half>>
    /\ bstate.Vy = Zero
    /\ bstate.omega # Zero
    /\ bstate.psi # Zero

---------------------------------------------------------------------------
(* Properties of the cart-pole.                                            *)

\* The state after an Euler step of length dt under `force`, taken as given.
UnclippedStep(p, state, force, dt) ==
    With(CartPole_dynamics(p, state, force), LAMBDA derivs :
        <<Add(state[1], Mul(derivs[1], dt)),
          Add(state[2], Mul(derivs[2], dt)),
          wrap_theta(Add(state[3], Mul(derivs[3], dt))),
          Add(state[4], Mul(derivs[4], dt))>>)

\* C5: update saturates the force: with force >= max_force the state it
\* leaves is the one force = max_force leaves, with force <= -max_force the
\* one force = -max_force leaves, and a force inside [-max_force, +max_force]
\* is used unchanged.
ForceSaturates ==
    [][ last'.op = "cart_update" =>
          /\ Le(cparams.max_force, last'.force) =>
                cstate' = CartPole_update(cparams, cstate,
                                          cparams.max_force, last'.dt)
          /\ Le(last'.force, Neg(cparams.max_force)) =>
                cstate' = CartPole_update(cparams, cstate,
                                          Neg(cparams.max_force), last'.dt)
          /\ (/\ Le(Neg(cparams.max_force), last'.force)
              /\ Le(last'.force, cparams.max_force)) =>
                cstate' = UnclippedStep(cparams, cstate,
                                        last'.force, last'.dt) ]_vars

\* A cart pushed with 10 * max_force, which has accelerated it.
PushedWithTenTimesMaxForce ==
    /\ sys = "cart"
    /\ last.op = "cart_update"
    /\ last.force = Mul(R(10), cparams.max_force)
    /\ Lt(Zero, cstate[2])

\* C8: dynamics(params, [0,0,0,0], 0) is [0,0,0,0], and update(0, dt) in the
\* state [0,0,0,0] leaves the state [0,0,0,0].
UprightRestIsFixedPoint ==
    [][ (/\ cstate = <<Zero, Zero, Zero, Zero>>
         /\ last'.op = "cart_update"
         /\ last'.force = Zero) =>
          /\ CartPole_dynamics(cparams, cstate, Zero) = <<Zero, Zero, Zero, Zero>>
          /\ cstate' = <<Zero, Zero, Zero, Zero>> ]_vars

\* The default cart-pole at rest after two updates with force 0.
RestedTwoSteps ==
    /\ sys = "cart"
    /\ steps = 2
    /\ last.op = "cart_update"
    /\ last.force = Zero
    /\ cparams = DefaultParams
    /\ cstate = <<Zero, Zero, Zero, Zero>>

\* The forces operand at row i.
ForceAt(forces, i) == IF forces.dim = 0 THEN forces.v[1] ELSE forces.v[i]

\* `states` with every row but row i replaced by r.
OtherRows(states, i, r) ==
    CHOOSE q \in SeqsUpTo(Rows, Len(states)) :
        /\ Len(q) = Len(states)
        /\ \A j \in 1..Len(q) : q[j] = IF j = i THEN states[i] ELSE r

\* `forces` with every entry but entry i replaced by g.
OtherForces(forces, i, g) ==
    Array(CHOOSE q \in SeqsUpTo(ForceValues, Len(forces.v)) :
        /\ Len(q) = Len(forces.v)
        /\ \A j \in 1..Len(q) : q[j] = IF j = i THEN forces.v[i] ELSE g)

\* C6: for N states and N forces, row i of dynamics_batch(params, states,
\* forces) is dynamics(params, states[i], forces[i]), and it stays the same
\* when the other rows of states and the other entries of forces change.
BatchRowsAreScalarDynamics ==
    (/\ bout.dim = 2
     /\ bin.forces.dim = 1
     /\ Len(bin.forces.v) = Len(bin.states)) =>
        \A i \in 1..Len(bin.states) :
            /\ bout.v[i] = CartPole_dynamics(bin.params, bin.states[i],
                                             bin.forces.v[i])
            /\ \A r \in Rows, g \in ForceValues :
                  \E others \in { dynamics_batch(bin.params,
                                      OtherRows(bin.states, i, r),
                                      OtherForces(bin.forces, i, g)) } :
                      others.dim = 2 /\ others.v[i] = bout.v[i]

\* A batch of three rows, not all alike, with three forces, not all alike.
BatchOfThree ==
    /\ bout.dim = 2
    /\ Len(bin.states) = 3
    /\ bin.forces.dim = 1
    /\ Len(bin.forces.v) = 3
    /\ bin.states[1] # bin.states[2]
    /\ bin.forces.v[2] # bin.forces.v[3]
    /\ bout.v[1] # bout.v[2]

\* The number of forces handed to dynamics_batch.
NumForces == IF bin.forces.dim = 0 THEN 1 ELSE Len(bin.forces.v)

\* C7 (as amended): dynamics_batch raises exactly when forces is an array
\* whose length is neither N, the number of states, nor 1; a single force
\* and an array of one force are broadcast over the N states, and a result
\* is returned.
BatchRaisesOnUnbroadcastableForces ==
    bout # NoResult =>
        (bout = ShapeError <=>
            (/\ bin.forces.dim = 1
             /\ Len(bin.forces.v) # Len(bin.states)
             /\ Len(bin.forces.v) # 1))

\* C7 (as stated): dynamics_batch raises whenever the number of forces is
\* not the number N of states.
BatchRaisesOnForceCountMismatch ==
    (bout # NoResult /\ NumForces # Len(bin.states)) => bout = ShapeError

\* Three states with two forces: the call has raised.
RaisedOnTwoForcesForThreeStates ==
    /\ Len(bin.states) = 3
    /\ bin.forces.dim = 1
    /\ Len(bin.forces.v) = 2
    /\ bout = ShapeError

=============================================================================
